---- MODULE Spec2Model ----
(***************************************************************************)
(* Model of the CS Float listing tracker (src/main.py): the polling loop   *)
(* CSFloatBot.check_listings, the listing fetch client, the seen-listing   *)
(* set, the tracking configuration store (a Python dict, with CPython's    *)
(* iteration rules) and the command handlers track, untrack, list_tracking *)
(* and test.  Every coroutine is cut at its await points: one action is    *)
(* the code that runs between two awaits.                                  *)
(***************************************************************************)
EXTENDS Integers, Sequences, FiniteSets, TLC

\* ------------------------------------------------------------- bounds ----
\* Listing ids are 1..MaxId (the code's ids are opaque strings).
MaxId == 2
\* Longest listing array a fetch returns under Spec.
MaxFetch == 2
\* Track handlers that may be suspended at an await at the same time.
MaxInflight == 1
\* Listings beyond the cap of 5 that a fetch returns under SpecCap.
MaxOver == 3

\* Calls of check_listings.start() that hist counts.
MaxStarts == 2

\* ---------------------------------------------------------- constants ----
\* new_listings[:5]
NotifyCap == 5
\* 'limit': 20 of the default parameter bundle
DefaultLimit == 20

Names == {"A", "B"}
\* Channels a command can come from; the transport resolves exactly these.
Channels == {1, 2}
\* CHANNEL_ID of the environment: a resolvable channel or one the transport
\* does not know.
EnvChannels == {1, 9}
Ids == 1..MaxId

VARIABLES
    seen_listings,     \* self.seen_listings
    tracking_configs,  \* self.tracking_configs: the dict's entry array
    channel_id,        \* self.channel_id
    pc,                \* where check_listings is: unstarted, idle, sleep,
                       \* fetch, send, failed
    it,                \* the dict iterator of the for loop at line 209
    config_name,       \* loop variable config_name
    config,            \* config['params'] of the loop variable config
    channel,           \* local channel of check_listings
    new_listings,      \* local new_listings
    batch,             \* ids sent so far by the loop at line 223
    track_send,        \* track handlers suspended at line 301
    track_fetch,       \* track handlers suspended at line 304
    reply,             \* last message a command handler sent to its context
    notified,          \* history: id -> notifications dispatched for it
    hist               \* history of the cycle in progress

vars == <<seen_listings, tracking_configs, channel_id, pc, it,
          config_name, config, channel, new_listings, batch, track_send,
          track_fetch, reply, notified, hist>>

\* ------------------------------------------------- sequences helpers ----
Min(a, b) == IF a <= b THEN a ELSE b

\* s[:n]
Take(s, n) == SubSeq(s, 1, Min(n, Len(s)))

Range(s) == {s[i] : i \in DOMAIN s}

\* Sequences of distinct elements of S, of length at most n.
RECURSIVE DistinctSeqs(_, _)
DistinctSeqs(S, n) ==
    IF n = 0 THEN {<<>>}
    ELSE LET shorter == DistinctSeqs(S, n - 1)
         IN shorter \cup
            UNION {{Append(s, x) : x \in S \ Range(s)} :
                       s \in {t \in shorter : Len(t) = n - 1}}

\* ------------------------------------------- the dict tracking_configs ----
\* A Python dict keeps its items in insertion order: the dict is the sequence
\* of its items [name, params, channel].  Assigning to a key it holds keeps
\* the item's place, a new key goes to the end, del takes the item out.
NoEntry == [name |-> "", params |-> <<>>, channel |-> 0]

\* len(d)
Used(d) == Len(d)

\* name in d
Has(d, name) == \E i \in DOMAIN d : d[i].name = name

IndexOf(d, name) == CHOOSE i \in DOMAIN d : d[i].name = name

Keys(d) == {d[i].name : i \in DOMAIN d}

\* d.setdefault(e.name, e) in the place of d[e.name] = e
DictSetKeepsFirst(d, e) == IF Has(d, e.name) THEN d ELSE Append(d, e)

\* d[e.name] = e
DictSet(d, e) ==
    IF Has(d, e.name) THEN [d EXCEPT ![IndexOf(d, e.name)] = e]
    ELSE Append(d, e)

\* d.clear() in the place of del d[name]
DictDelAll(d, name) == <<>>

\* del d[name]
DictDel(d, name) == SelectSeq(d, LAMBDA e : e.name # name)

\* iter(d.items()): the size the iterator was created for, the items it has
\* yielded, the items it still expects, and whether a key was added or
\* removed since (Track and Untrack set it while the loop is suspended).
NewIter(d) == [used |-> Used(d), pos |-> 0, len |-> Used(d), dirty |-> FALSE]

\* The outcomes of next() on the iterator.  With the keys as they were, the
\* items come in order and the iteration stops after the last.  With another
\* size than at creation it raises RuntimeError.  With the size restored after
\* keys were added and removed, Python leaves the outcome open ("may raise a
\* RuntimeError or fail to iterate over all entries"): which slot the iterator
\* looks at next depends on where the runtime put the new items, so it may
\* stop, raise, or yield any item while it expects one.
IterNext(d, i) ==
    IF i.used # Used(d) THEN {[kind |-> "error", it |-> i, entry |-> NoEntry]}
    ELSE IF ~i.dirty
    THEN IF i.pos >= Len(d) THEN {[kind |-> "stop", it |-> i, entry |-> NoEntry]}
         ELSE {[kind |-> "item",
                it |-> [i EXCEPT !.pos = i.pos + 1, !.len = i.len - 1],
                entry |-> d[i.pos + 1]]}
    ELSE {[kind |-> "stop", it |-> i, entry |-> NoEntry],
          [kind |-> "error", it |-> i, entry |-> NoEntry]}
         \cup (IF i.len = 0 THEN {}
               ELSE {[kind |-> "item",
                      it |-> [i EXCEPT !.pos = i.pos + 1, !.len = i.len - 1],
                      entry |-> d[k]] : k \in DOMAIN d})

\* --------------------------------------------- parameter values (track) ----
\* Text is a sequence of one-character strings.  A value of the parameter
\* bundle is an int, a float or a str:
\*   [t |-> "int",   n |-> the number,       s |-> <<>>]
\*   [t |-> "float", n |-> the integer part, s |-> the fraction's digits,
\*                                                  trailing zeros dropped]
\*   [t |-> "str",   n |-> 0,                s |-> the text]
Digits == {"0", "1", "2", "3", "4", "5", "6", "7", "8", "9"}

DigitVal(c) == CASE c = "0" -> 0 [] c = "1" -> 1 [] c = "2" -> 2 [] c = "3" -> 3
                 [] c = "4" -> 4 [] c = "5" -> 5 [] c = "6" -> 6 [] c = "7" -> 7
                 [] c = "8" -> 8 [] c = "9" -> 9

DigitChar(n) == CHOOSE c \in Digits : DigitVal(c) = n

AllDigits(s) == \A i \in DOMAIN s : s[i] \in Digits

\* The number a digit string denotes (0 for the empty string).
RECURSIVE DecimalOf(_)
DecimalOf(s) ==
    IF s = <<>> THEN 0
    ELSE 10 * DecimalOf(SubSeq(s, 1, Len(s) - 1)) + DigitVal(s[Len(s)])

\* str(n) for an int n >= 0
RECURSIVE IntStr(_)
IntStr(n) ==
    IF n < 10 THEN <<DigitChar(n)>>
    ELSE Append(IntStr(n \div 10), DigitChar(n % 10))

RECURSIVE DropTrailingZeros(_)
DropTrailingZeros(s) ==
    IF s # <<>> /\ s[Len(s)] = "0"
    THEN DropTrailingZeros(SubSeq(s, 1, Len(s) - 1))
    ELSE s

MkInt(n) == [t |-> "int", n |-> n, s |-> <<>>]
MkStr(s) == [t |-> "str", n |-> 0, s |-> s]
MkFloat(n, frac) == [t |-> "float", n |-> n, s |-> frac]

\* int(value) raises ValueError unless the text is a decimal literal.  For
\* the texts of ParamTokens (digits, '.', 'x') that is: one or more digits.
IntParses(value) == value # <<>> /\ AllDigits(value)

\* float(value), reached only when '.' is in the text: digits around exactly
\* one point, at least one digit.
FloatParses(value) ==
    /\ Cardinality({i \in DOMAIN value : value[i] = "."}) = 1
    /\ \A i \in DOMAIN value : value[i] = "." \/ value[i] \in Digits
    /\ Len(value) > 1

PointAt(value) == CHOOSE i \in DOMAIN value : value[i] = "."

\* Lines 276-282: numeric values are converted, anything else is kept.
CoerceDropsMalformed(value) ==
    IF "." \in Range(value)
    THEN IF FloatParses(value)
         THEN MkFloat(DecimalOf(SubSeq(value, 1, PointAt(value) - 1)),
                      DropTrailingZeros(SubSeq(value, PointAt(value) + 1, Len(value))))
         ELSE MkStr(<<>>)
    ELSE IF IntParses(value) THEN MkInt(DecimalOf(value)) ELSE MkStr(<<>>)

Coerce(value) ==
    IF "." \in Range(value)
    THEN IF FloatParses(value)
         THEN MkFloat(DecimalOf(SubSeq(value, 1, PointAt(value) - 1)),
                      DropTrailingZeros(SubSeq(value, PointAt(value) + 1, Len(value))))
         ELSE MkStr(value)
    ELSE IF IntParses(value) THEN MkInt(DecimalOf(value)) ELSE MkStr(value)

\* str(v), as the f-string of list_tracking formats a value.  For a float
\* this is the shortest decimal text, which is what repr gives for the
\* magnitudes in TokenValues (1e-4 <= v < 1e16).
Str(v) ==
    CASE v.t = "int" -> IntStr(v.n)
      [] v.t = "float" -> IntStr(v.n) \o <<".">> \o (IF v.s = <<>> THEN <<"0">> ELSE v.s)
      [] v.t = "str" -> v.s

\* class SortOption
BEST_DEAL == <<"b", "e", "s", "t", "_", "d", "e", "a", "l">>
HIGHEST_DISCOUNT == <<"h", "i", "g", "h", "e", "s", "t", "_", "d", "i", "s", "c", "o", "u", "n", "t">>
LOWEST_PRICE == <<"l", "o", "w", "e", "s", "t", "_", "p", "r", "i", "c", "e">>
HIGHEST_PRICE == <<"h", "i", "g", "h", "e", "s", "t", "_", "p", "r", "i", "c", "e">>
MOST_RECENT == <<"m", "o", "s", "t", "_", "r", "e", "c", "e", "n", "t">>
LOWEST_FLOAT == <<"l", "o", "w", "e", "s", "t", "_", "f", "l", "o", "a", "t">>
HIGHEST_FLOAT == <<"h", "i", "g", "h", "e", "s", "t", "_", "f", "l", "o", "a", "t">>
CREATED_AT == <<"c", "r", "e", "a", "t", "e", "d", "_", "a", "t">>

SortOption == {BEST_DEAL, HIGHEST_DISCOUNT, LOWEST_PRICE, HIGHEST_PRICE,
               MOST_RECENT, LOWEST_FLOAT, HIGHEST_FLOAT, CREATED_AT}

\* A parameter bundle is a Python dict: <<key, value>> pairs in insertion
\* order, keys unique.
HasKey(pd, key) == \E i \in DOMAIN pd : pd[i][1] = key

Get(pd, key) == pd[CHOOSE i \in DOMAIN pd : pd[i][1] = key][2]

\* pd[key] = v
Put(pd, key, v) ==
    IF HasKey(pd, key)
    THEN [i \in DOMAIN pd |-> IF pd[i][1] = key THEN <<key, v>> ELSE pd[i]]
    ELSE Append(pd, <<key, v>>)

\* Lines 252-257
BaseParams(def_index, paint_index) ==
    << <<"def_index", MkInt(def_index)>>, <<"paint_index", MkInt(paint_index)>>,
       <<"limit", MkInt(DefaultLimit)>>, <<"sort_by", MkStr(BEST_DEAL)>> >>

\* A token of params.split() is [eq, key, value]: the text key=value when eq
\* (split at its first '='), the text key when not.
\* Lines 260-282 from token i on: [ok, dict] when every token is taken,
\* [ok |-> FALSE, bad |-> value] at the first unknown sort option.
RECURSIVE ParseFrom(_, _, _)
ParseFromAcceptsAnySort(tokens, i, pd) ==
    IF i > Len(tokens) THEN [ok |-> TRUE, dict |-> pd, bad |-> <<>>]
    ELSE LET tok == tokens[i]
         IN IF ~tok.eq THEN ParseFrom(tokens, i + 1, pd)
            ELSE IF tok.key = "sort_by"
                 THEN ParseFrom(tokens, i + 1, Put(pd, tok.key, MkStr(tok.value)))
            ELSE ParseFrom(tokens, i + 1, Put(pd, tok.key, Coerce(tok.value)))

ParseFrom(tokens, i, pd) ==
    IF i > Len(tokens) THEN [ok |-> TRUE, dict |-> pd, bad |-> <<>>]
    ELSE LET tok == tokens[i]
         IN IF ~tok.eq THEN ParseFrom(tokens, i + 1, pd)
            ELSE IF tok.key = "sort_by"
                 THEN IF tok.value \in SortOption
                      THEN ParseFrom(tokens, i + 1, Put(pd, tok.key, MkStr(tok.value)))
                      ELSE [ok |-> FALSE, dict |-> pd, bad |-> tok.value]
            ELSE ParseFrom(tokens, i + 1, Put(pd, tok.key, Coerce(tok.value)))

\* Lines 250-282: the parameter bundle of a track command.
ParseParams(def_index, paint_index, tokens) ==
    ParseFrom(tokens, 1, BaseParams(def_index, paint_index))

\* Line 345: the lines list_tracking shows for one bundle, <<key, text>> each.
ParamLines(pd) == [i \in DOMAIN pd |-> <<pd[i][1], Str(pd[i][2])>>]

\* Lines 344-346: one field per configuration, in the dict's order.
ListFields(d) ==
    [i \in DOMAIN d |-> [name |-> d[i].name, lines |-> ParamLines(d[i].params)]]

\* ------------------------------------------------------ the fetch client ----
\* What the endpoint does with one request: the transport raises, or a
\* response with a status and, for 200, a body whose data field is a list of
\* listings (a listing is its id here).
Responses(results) ==
    {[raised |-> FALSE, status |-> 200, data |-> l] : l \in results}
        \cup {[raised |-> FALSE, status |-> 500, data |-> <<>>],
              [raised |-> TRUE, status |-> 0, data |-> <<>>]}

FetchFailed(resp) == resp.raised \/ resp.status # 200

\* CSFloatBot.fetch_listings
fetch_listings(resp) ==
    IF resp.raised THEN <<>>
    ELSE IF resp.status = 200 THEN resp.data
    ELSE <<>>

\* ------------------------------------------------ the notification builder ----
\* A listing, as far as lines 101-102 and 120-160 read it: price in cents,
\* seller a dict that may hold username and obfuscated_id, reference absent
\* or a dict with predicted_price and base_price in cents.  A text is the
\* sequence of its characters.
Absent == [has |-> FALSE, v |-> <<>>]

Present(text) == [has |-> TRUE, v |-> text]

ANONYMOUS == <<"A", "n", "o", "n", "y", "m", "o", "u", "s">>

\* seller.get('username', 'Anonymous')
GetUsername(seller) ==
    IF seller.username.has THEN seller.username.v ELSE ANONYMOUS

\* seller.get('obfuscated_id'): None when the key is absent
GetObfuscated(seller) ==
    IF seller.obfuscated_id.has THEN seller.obfuscated_id.v ELSE <<>>

\* Lines 120-122: seller_name
SellerName(seller) ==
    IF GetUsername(seller) = <<>> /\ GetObfuscated(seller) # <<>>
    THEN <<"U", "s", "e", "r", " ">> \o Take(GetObfuscated(seller), 8)
             \o <<".", ".", ".">>
    ELSE GetUsername(seller)

\* f"{x:.1f}" of x = 100 * d / predicted for cents d >= 0, predicted > 0,
\* as the number of tenths: the quotient rounded to the nearest tenth.  The
\* prices of EmbedListings give no quotient half-way between two tenths,
\* where the binary value of x would decide.
Tenths(d, predicted) == (2000 * d + predicted) \div (2 * predicted)

\* Lines 140-148.  price / 100 and predicted / 100 are different doubles
\* when the cents differ and compare as the cents do.
Divergence(price, predicted) ==
    IF price > predicted
    THEN [marker |-> "up", sign |-> "+",
          tenths |-> Tenths(price - predicted, predicted)]
    ELSE IF price < predicted
    THEN [marker |-> "down", sign |-> "-",
          tenths |-> Tenths(predicted - price, predicted)]
    ELSE [marker |-> "even", sign |-> "", tenths |-> 0]

\* Line 157 without its base_price test.
HasDiscountAnyBase(price, reference) == price < reference.predicted_price

\* Line 157
HasDiscount(price, reference) ==
    reference.base_price > 0 /\ price < reference.predicted_price

\* Lines 127-160: the fields the reference adds.
ReferenceFields(price, reference) ==
    IF ~reference.has THEN <<>>
    ELSE (IF reference.predicted_price > 0
          THEN << [name |-> "Predicted", value |-> reference.predicted_price],
                  [name |-> "Divergence",
                   value |-> Divergence(price, reference.predicted_price)] >>
          ELSE <<>>)
         \o (IF HasDiscount(price, reference)
             THEN << [name |-> "Discount",
                      value |-> Tenths(reference.predicted_price - price,
                                       reference.predicted_price)] >>
             ELSE <<>>)

\* CSFloatBot.create_listing_embed: the Price field (amount in cents), the
\* Seller field and the reference fields, in the order they are added.  The
\* fields between them and after them do not depend on seller, price or
\* reference and are left out.
create_listing_embed(listing) ==
    << [name |-> "Price", value |-> listing.price],
       [name |-> "Seller", value |-> SellerName(listing.seller)] >>
        \o ReferenceFields(listing.price, listing.reference)

\* ---------------------------------------------------------------- state ----
NoTrack == [set |-> FALSE, again |-> FALSE, def_index |-> 0,
            paint_index |-> 0, tokens |-> <<>>]

NoneYet == [x \in Ids |-> 0]

NoReference == [has |-> FALSE, predicted_price |-> 0, base_price |-> 0]

NoListing == [price |-> 0,
              seller |-> [username |-> Absent, obfuscated_id |-> Absent],
              reference |-> NoReference]

NoHist == [failed |-> {}, prev_ret |-> {}, cur_ret |-> {}, shown |-> {},
           last |-> [n \in Names |-> NoTrack], listing |-> NoListing,
           lost |-> {}, lost_ret |-> {}, starts |-> 0, skipped |-> {},
           first |-> NoneYet, by |-> NoneYet, again |-> {},
           before |-> {}, initial |-> {}, resolved |-> 0, dest |-> {}]

NoReply == [kind |-> "none", ok |-> TRUE, body |-> <<>>]

\* The state after bot = CSFloatBot(): nothing seen, nothing tracked, the
\* loop not started, channel_id from the environment.
InitWith(env) ==
    /\ seen_listings = {}
    /\ tracking_configs = <<>>
    /\ channel_id \in env
    /\ pc = "unstarted"
    /\ it = NewIter(<<>>)
    /\ config_name = ""
    /\ config = <<>>
    /\ channel = 0
    /\ new_listings = <<>>
    /\ batch = <<>>
    /\ track_send = 0
    /\ track_fetch = 0
    /\ reply = NoReply
    /\ notified = [x \in {} |-> 0]
    /\ hist = NoHist

Notified(x) == IF x \in DOMAIN notified THEN notified[x] ELSE 0

InCycle == pc \in {"sleep", "fetch", "send"}

\* ------------------------------------------------------- check_listings ----
\* on_ready: start the loop unless it is running.  A loop whose task ended
\* with an exception is not running and is started again.
OnReady ==
    /\ pc' = IF pc \in {"unstarted", "failed"} THEN "idle" ELSE pc
    /\ UNCHANGED <<seen_listings, tracking_configs, channel_id, it,
                   config_name, config, channel, new_listings, batch,
                   track_send, track_fetch, notified>>

\* A get_channel that resolves every id.
GetChannelAny(id) == id

\* get_channel(channel_id): 0 stands for None
get_channel(id) == IF id \in Channels THEN id ELSE 0

\* check_listings is left, by return or by an exception: its locals are gone.
Leave(to) ==
    /\ pc' = to
    /\ it' = NewIter(<<>>)
    /\ config_name' = ""
    /\ config' = <<>>
    /\ channel' = 0
    /\ new_listings' = <<>>
    /\ batch' = <<>>

\* Advance with the channel of the configuration taken as the destination.
AdvanceToConfigChannel(i, ch, new, sent) ==
    \E r \in IterNext(tracking_configs, i) :
        CASE r.kind = "item" ->
               /\ pc' = "sleep"
               /\ it' = r.it
               /\ config_name' = r.entry.name
               /\ config' = r.entry.params
               /\ channel' = r.entry.channel
               /\ new_listings' = new
               /\ batch' = sent
          [] r.kind = "stop" -> Leave("idle")
          [] r.kind = "error" -> Leave("failed")

\* The for statement at line 209 asks the iterator i for the next item: the
\* body starts (and suspends in the jitter sleep of line 210), the loop and
\* with it the tick ends, or the RuntimeError of the iterator leaves
\* check_listings and ends the loop's task.  ch, new and sent are the locals
\* channel, new_listings and the ids sent, as the code before has left them.
Advance(i, ch, new, sent) ==
    \E r \in IterNext(tracking_configs, i) :
        CASE r.kind = "item" ->
               /\ pc' = "sleep"
               /\ it' = r.it
               /\ config_name' = r.entry.name
               /\ config' = r.entry.params
               /\ channel' = ch
               /\ new_listings' = new
               /\ batch' = sent
          [] r.kind = "stop" -> Leave("idle")
          [] r.kind = "error" -> Leave("failed")

\* new_listings, the slice left out.
CappedNot(l) == l

\* new_listings[:5]
Capped(l) == Take(l, NotifyCap)

\* Lines 215-220 without the test of line 216: every listing is new.
DiffAll(listings, seen) == listings

\* Lines 215-220: the listings whose id is not in seen, in fetch order, each
\* id added to seen when it is met.
RECURSIVE Diff(_, _)
Diff(listings, seen) ==
    IF listings = <<>> THEN <<>>
    ELSE IF Head(listings) \in seen THEN Diff(Tail(listings), seen)
    ELSE <<Head(listings)>> \o Diff(Tail(listings), seen \cup {Head(listings)})

\* Line 220 left out: nothing is marked.
MarkNothing(seen, new) == seen

\* Line 220, for every listing found new.
Mark(seen, new) == seen \cup Range(new)

\* A tick that does not wait for the tick before it to return.
TickAnytime ==
    /\ pc \in {"idle", "sleep", "fetch", "send"}
    /\ IF Used(tracking_configs) = 0
       THEN Leave("idle")
       ELSE IF get_channel(channel_id) = 0
       THEN Leave("idle")
       ELSE Advance(NewIter(tracking_configs), get_channel(channel_id),
                    <<>>, <<>>)
    /\ UNCHANGED <<seen_listings, tracking_configs, channel_id, track_send,
                   track_fetch, notified>>

\* A tick of the loop, lines 199-210: nothing to do without configurations
\* or without a channel; otherwise the for loop starts.
Tick ==
    /\ pc = "idle"
    /\ IF Used(tracking_configs) = 0
       THEN Leave("idle")
       ELSE IF get_channel(channel_id) = 0
       THEN Leave("idle")
       ELSE Advance(NewIter(tracking_configs), get_channel(channel_id),
                    <<>>, <<>>)
    /\ UNCHANGED <<seen_listings, tracking_configs, channel_id, track_send,
                   track_fetch, notified>>

\* Line 210 returns: line 213 sends the request.
Wake ==
    /\ pc = "sleep"
    /\ pc' = "fetch"
    /\ UNCHANGED <<seen_listings, tracking_configs, channel_id, it,
                   config_name, config, channel, new_listings, batch,
                   track_send, track_fetch, notified>>

\* Line 213 returns: lines 215-225 up to the first send, or, with nothing to
\* send, on to the next configuration.
FetchReturn(resp) ==
    /\ pc = "fetch"
    /\ LET listings == fetch_listings(resp)
           new == Diff(listings, seen_listings)
       IN /\ seen_listings' = Mark(seen_listings, new)
          /\ IF Capped(new) # <<>>
             THEN /\ pc' = "send"
                  /\ new_listings' = new
                  /\ batch' = <<>>
                  /\ UNCHANGED <<it, config_name, config, channel>>
             ELSE Advance(it, channel, new, <<>>)
    /\ UNCHANGED <<tracking_configs, channel_id, track_send, track_fetch,
                   notified>>

\* Line 225 returns: the next listing of new_listings[:5] is sent, or the for
\* loop goes on.
SendOk ==
    /\ pc = "send"
    /\ LET id == Capped(new_listings)[Len(batch) + 1]
       IN /\ notified' = [x \in DOMAIN notified \cup {id} |->
                             IF x = id THEN Notified(x) + 1 ELSE notified[x]]
          /\ IF Len(batch) + 1 < Len(Capped(new_listings))
             THEN /\ batch' = Append(batch, id)
                  /\ UNCHANGED <<pc, it, config_name, config, channel,
                                 new_listings>>
             ELSE Advance(it, channel, new_listings, Append(batch, id))
    /\ UNCHANGED <<seen_listings, tracking_configs, channel_id, track_send,
                   track_fetch>>

\* SendFail with the try statement around the for loop instead of inside it.
SendFailEndsTick ==
    /\ pc = "send"
    /\ Leave("idle")
    /\ UNCHANGED <<seen_listings, tracking_configs, channel_id, track_send,
                   track_fetch, notified>>

\* SendFail taking the id out of the seen set, as a loop that marks after
\* delivery would leave it.
SendFailUnmarks ==
    /\ pc = "send"
    /\ seen_listings' = seen_listings \ {Capped(new_listings)[Len(batch) + 1]}
    /\ Advance(it, channel, new_listings, batch)
    /\ UNCHANGED <<tracking_configs, channel_id, track_send, track_fetch,
                   notified>>

\* Line 225 (or the embed built at line 224) raises: the handler at line 230
\* logs it and the for loop goes on with the next configuration.
SendFail ==
    /\ pc = "send"
    /\ Advance(it, channel, new_listings, batch)
    /\ UNCHANGED <<seen_listings, tracking_configs, channel_id, track_send,
                   track_fetch, notified>>

\* ------------------------------------------------------ command handlers ----
\* The iterator of a suspended cycle after the dict became d.
Touch(d) == IF InCycle /\ Keys(d) # Keys(tracking_configs)
            THEN [it EXCEPT !.dirty = TRUE] ELSE it

\* Lines 290-292: the channel becomes the default when the dict holds one
\* configuration after the store.
DefaultChannel(d, ch) == IF Used(d) = 1 THEN ch ELSE channel_id

\* track, lines 250-301: an unknown sort option is answered and nothing else
\* happens; otherwise the configuration is stored, the default channel is
\* updated and the handler suspends sending its confirmation.
Track(name, def_index, paint_index, tokens, ch) ==
    LET parsed == ParseParams(def_index, paint_index, tokens)
    IN IF ~parsed.ok
       THEN UNCHANGED <<seen_listings, tracking_configs, channel_id, pc, it,
                        config_name, config, channel, new_listings, batch,
                        track_send, track_fetch, notified>>
       ELSE /\ track_send + track_fetch < MaxInflight
            /\ LET e == [name |-> name, params |-> parsed.dict, channel |-> ch]
                   d == DictSet(tracking_configs, e)
               IN /\ tracking_configs' = d
                  /\ channel_id' = DefaultChannel(d, ch)
                  /\ it' = Touch(d)
            /\ track_send' = track_send + 1
            /\ UNCHANGED <<seen_listings, pc, config_name, config, channel,
                           new_listings, batch, track_fetch, notified>>

\* What track sends first: line 272 or line 301.
TrackReply(def_index, paint_index, tokens) ==
    LET parsed == ParseParams(def_index, paint_index, tokens)
    IN IF parsed.ok THEN [kind |-> "track", ok |-> TRUE, body |-> parsed.dict]
       ELSE [kind |-> "track", ok |-> FALSE, body |-> parsed.bad]

\* Line 301 returns: line 304 sends the request of the initial fetch.
TrackSendOk ==
    /\ track_send > 0
    /\ track_send' = track_send - 1
    /\ track_fetch' = track_fetch + 1
    /\ UNCHANGED <<seen_listings, tracking_configs, channel_id, pc, it,
                   config_name, config, channel, new_listings, batch,
                   notified>>

\* Line 301 raises: the handler at line 323 reports it and the command ends
\* without its initial fetch.
TrackSendFail ==
    /\ track_send > 0
    /\ track_send' = track_send - 1
    /\ UNCHANGED <<seen_listings, tracking_configs, channel_id, pc, it,
                   config_name, config, channel, new_listings, batch,
                   track_fetch, notified>>

\* Lines 307-308, with the set assigned instead of extended.
MarkInitialReplaces(seen, initial_listings) == Range(initial_listings)

\* Lines 307-308
MarkInitial(seen, initial_listings) == seen \cup Range(initial_listings)

\* Line 304 returns, lines 305-308: the listings found are marked seen.
TrackFetchReturn(resp) ==
    /\ track_fetch > 0
    /\ track_fetch' = track_fetch - 1
    /\ seen_listings' = MarkInitial(seen_listings, fetch_listings(resp))
    /\ UNCHANGED <<tracking_configs, channel_id, pc, it, config_name, config,
                   channel, new_listings, batch, track_send, notified>>

\* Lines 310-321: the second confirmation, sent when listings were found.
TrackInitialReply(resp) ==
    IF fetch_listings(resp) # <<>>
    THEN [kind |-> "track_initial", ok |-> TRUE,
          body |-> Len(fetch_listings(resp))]
    ELSE reply

\* untrack, lines 329-333
Untrack(name) ==
    /\ IF Has(tracking_configs, name)
       THEN /\ tracking_configs' = DictDel(tracking_configs, name)
            /\ it' = Touch(DictDel(tracking_configs, name))
       ELSE UNCHANGED <<tracking_configs, it>>
    /\ UNCHANGED <<seen_listings, channel_id, pc, config_name, config,
                   channel, new_listings, batch, track_send, track_fetch,
                   notified>>

\* Lines 331 and 333: ok tells whether a configuration was found.
UntrackReply(name) ==
    [kind |-> "untrack", ok |-> Has(tracking_configs, name), body |-> name]

\* list_tracking, lines 338-348, changes nothing: it sends ListReply.
ListTracking ==
    UNCHANGED <<seen_listings, tracking_configs, channel_id, pc, it,
                config_name, config, channel, new_listings, batch,
                track_send, track_fetch, notified>>

ListReply ==
    IF Used(tracking_configs) = 0
    THEN [kind |-> "list", ok |-> FALSE, body |-> <<>>]
    ELSE [kind |-> "list", ok |-> TRUE, body |-> ListFields(tracking_configs)]

\* test that marks what it fetched, as track does at lines 307-308.
TestFetchMarks(sort_by, resp) ==
    /\ seen_listings' = seen_listings \cup Range(fetch_listings(resp))
    /\ UNCHANGED <<tracking_configs, channel_id, pc, it, config_name, config,
                   channel, new_listings, batch, track_send, track_fetch,
                   notified>>

\* test, lines 353-378: the sort option is validated, one fetch is made and
\* the listings found are reported, the first one shown.
TestFetch(sort_by, resp) ==
    UNCHANGED <<seen_listings, tracking_configs, channel_id, pc, it,
                config_name, config, channel, new_listings, batch,
                track_send, track_fetch, notified>>

TestReply(sort_by, resp) ==
    IF sort_by \notin SortOption
    THEN [kind |-> "test", ok |-> FALSE, body |-> sort_by]
    ELSE IF fetch_listings(resp) = <<>>
    THEN [kind |-> "test", ok |-> FALSE, body |-> <<>>]
    ELSE [kind |-> "test", ok |-> TRUE, body |-> fetch_listings(resp)]

\* test, lines 376-378: the embed of a listing found is built and sent.
TestEmbed(listing) ==
    UNCHANGED <<seen_listings, tracking_configs, channel_id, pc, it,
                config_name, config, channel, new_listings, batch,
                track_send, track_fetch, notified>>

EmbedReply(listing) ==
    [kind |-> "embed", ok |-> TRUE, body |-> create_listing_embed(listing)]

\* ------------------------------------------------------------ observers ----
\* reply and hist record what a step did; the program reads neither.
Says(msg) == reply' = msg

\* hist.failed: the configurations whose processing hit a fetch failure or
\* a send failure in the cycle in progress.
FailTick == hist' = [hist EXCEPT !.failed = {}]

FailFetch(resp) ==
    hist' = [hist EXCEPT
               !.failed = IF FetchFailed(resp) THEN @ \cup {config_name} ELSE @]

FailSend == hist' = [hist EXCEPT !.failed = @ \cup {config_name}]

\* hist.cur_ret: the ids the fetches of the current tick have returned;
\* hist.prev_ret: those of the tick before.
RetTick == hist' = [hist EXCEPT !.prev_ret = hist.cur_ret, !.cur_ret = {}]

RetFetch(resp) ==
    hist' = [hist EXCEPT !.cur_ret = @ \cup Range(fetch_listings(resp))]

\* hist.starts: how often check_listings.start() was called (line 63), up
\* to MaxStarts.
CountStart ==
    hist' = [hist EXCEPT
               !.starts = IF pc \in {"unstarted", "failed"}
                          THEN Min(@ + 1, MaxStarts) ELSE @]

\* hist.skipped: why ticks so far returned early: the store was empty (line
\* 202) or the channel was not found (line 207).
SkipTick ==
    hist' = [hist EXCEPT
               !.skipped = IF Used(tracking_configs) = 0 THEN @ \cup {"empty"}
                           ELSE IF get_channel(channel_id) = 0
                           THEN @ \cup {"channel"}
                           ELSE @]

\* Of the cycle in progress or last ended: hist.first[x] is the place in the
\* iteration of the first configuration whose fetch returned x, hist.by[x]
\* the place of the configuration that notified x (0: none), hist.again the
\* ids that the fetch of a later configuration returned once more.
CycleTick ==
    hist' = [hist EXCEPT !.first = NoneYet, !.by = NoneYet, !.again = {}]

CycleFetch(resp) ==
    LET ret == Range(fetch_listings(resp))
    IN hist' = [hist EXCEPT
                  !.first = [x \in Ids |->
                               IF x \in ret /\ @[x] = 0 THEN it.pos ELSE @[x]],
                  !.again = @ \cup {x \in ret : hist.first[x] # 0}]

CycleSend ==
    hist' = [hist EXCEPT !.by[Capped(new_listings)[Len(batch) + 1]] = it.pos]

\* hist.before: the ids that had a notification when the last track command
\* stored its configuration; hist.initial: the ids that the initial fetch
\* of a track command returned and that had no notification when the
\* command stored its configuration.
SnapTrack ==
    hist' = [hist EXCEPT !.before = {x \in Ids : Notified(x) > 0}]

InitialFetch(resp) ==
    hist' = [hist EXCEPT
               !.initial = @ \cup (Range(fetch_listings(resp)) \ hist.before)]

\* hist.resolved: the channel that line 204 resolved at the start of the
\* cycle in progress or last ended (0: none); hist.dest: for every
\* notification of that cycle, the channel it was sent to and channel_id at
\* the time of the send.
DestTick ==
    hist' = [hist EXCEPT
               !.resolved = IF Used(tracking_configs) = 0 THEN 0
                            ELSE get_channel(channel_id),
               !.dest = {}]

DestSend == hist' = [hist EXCEPT !.dest = @ \cup {<<channel, channel_id>>}]

\* hist.lost: the ids whose dispatch failed; hist.lost_ret: those of them
\* that a later fetch of the loop returned again.
LostSend ==
    hist' = [hist EXCEPT !.lost = @ \cup {Capped(new_listings)[Len(batch) + 1]}]

LostFetch(resp) ==
    hist' = [hist EXCEPT
               !.lost_ret = @ \cup (Range(fetch_listings(resp)) \cap hist.lost)]

\* hist.shown: the ids test displayed (line 372: the first listing found)
\* at a time they were not in the seen set.
ShownTest(sort_by, resp) ==
    hist' = [hist EXCEPT
               !.shown = IF TestReply(sort_by, resp).ok
                         THEN @ \cup ({fetch_listings(resp)[1]} \ seen_listings)
                         ELSE @]

\* hist.last[name]: the arguments of the last track command for name that
\* was accepted, while the configuration it stored has not been removed;
\* again tells whether that command replaced a configuration.
LastTrack(name, def_index, paint_index, tokens) ==
    hist' = [hist EXCEPT
               !.last[name] =
                   IF TrackReply(def_index, paint_index, tokens).ok
                   THEN [set |-> TRUE, again |-> @.set, def_index |-> def_index,
                         paint_index |-> paint_index, tokens |-> tokens]
                   ELSE @]

LastUntrack(name) == hist' = [hist EXCEPT !.last[name] = NoTrack]

\* ------------------------------------------------------- specifications ----
BOGUS == <<"b", "o", "g", "u", "s">>

Tok(key, value) == [eq |-> TRUE, key |-> key, value |-> value]

\* Listing arrays of distinct ids.
FetchResults == DistinctSeqs(Ids, MaxFetch)

TrackTokens == {<<>>, <<Tok("sort_by", BOGUS)>>}

\* Spec: the whole bot, every coroutine interleaved at its awaits; hist
\* records the failures.
Init == InitWith(EnvChannels)

Next ==
    \/ OnReady /\ UNCHANGED <<reply, hist>>
    \/ Tick /\ FailTick /\ UNCHANGED reply
    \/ Wake /\ UNCHANGED <<reply, hist>>
    \/ \E resp \in Responses(FetchResults) :
          FetchReturn(resp) /\ FailFetch(resp) /\ UNCHANGED reply
    \/ SendOk /\ UNCHANGED <<reply, hist>>
    \/ SendFail /\ FailSend /\ UNCHANGED reply
    \/ \E name \in Names, tokens \in TrackTokens, ch \in Channels :
          Track(name, 7, 282, tokens, ch) /\ UNCHANGED <<reply, hist>>
    \/ TrackSendOk /\ UNCHANGED <<reply, hist>>
    \/ TrackSendFail /\ UNCHANGED <<reply, hist>>
    \/ \E resp \in Responses(FetchResults) :
          TrackFetchReturn(resp) /\ UNCHANGED <<reply, hist>>
    \/ \E name \in Names : Untrack(name) /\ UNCHANGED <<reply, hist>>

Spec == Init /\ [][Next]_vars

\* SpecLive: Spec with the scheduling of the event loop: a due tick runs, a
\* sleep ends, a request and a send come back (timeouts of the session and
\* of the transport), well or badly.  Commands and readiness events come when
\* the environment sends them: no fairness.
SpecLive ==
    /\ Spec
    /\ WF_vars(Tick /\ FailTick /\ UNCHANGED reply)
    /\ WF_vars(Wake /\ UNCHANGED <<reply, hist>>)
    /\ WF_vars(\E resp \in Responses(FetchResults) :
                  FetchReturn(resp) /\ FailFetch(resp) /\ UNCHANGED reply)
    /\ WF_vars((SendOk /\ UNCHANGED <<reply, hist>>)
                  \/ (SendFail /\ FailSend /\ UNCHANGED reply))

\* SpecLost: the loop with track and untrack from one channel; hist records
\* the dispatches that failed.
NextLost ==
    \/ OnReady /\ UNCHANGED <<reply, hist>>
    \/ Tick /\ UNCHANGED <<reply, hist>>
    \/ Wake /\ UNCHANGED <<reply, hist>>
    \/ \E resp \in Responses(FetchResults) :
          FetchReturn(resp) /\ LostFetch(resp) /\ UNCHANGED reply
    \/ SendOk /\ UNCHANGED <<reply, hist>>
    \/ SendFail /\ LostSend /\ UNCHANGED reply
    \/ \E name \in Names :
          Track(name, 7, 282, <<>>, 1) /\ UNCHANGED <<reply, hist>>
    \/ TrackSendOk /\ UNCHANGED <<reply, hist>>
    \/ \E resp \in Responses(FetchResults) :
          TrackFetchReturn(resp) /\ UNCHANGED <<reply, hist>>
    \/ \E name \in Names : Untrack(name) /\ UNCHANGED <<reply, hist>>

SpecLost == Init /\ [][NextLost]_vars

\* SpecStart: the loop with track and untrack from one channel; hist counts
\* the starts of the loop.
NextStart ==
    \/ OnReady /\ CountStart /\ UNCHANGED reply
    \/ Tick /\ UNCHANGED <<reply, hist>>
    \/ Wake /\ UNCHANGED <<reply, hist>>
    \/ \E resp \in Responses(FetchResults) :
          FetchReturn(resp) /\ UNCHANGED <<reply, hist>>
    \/ SendOk /\ UNCHANGED <<reply, hist>>
    \/ SendFail /\ UNCHANGED <<reply, hist>>
    \/ \E name \in Names :
          Track(name, 7, 282, <<>>, 1) /\ UNCHANGED <<reply, hist>>
    \/ TrackSendOk /\ UNCHANGED <<reply, hist>>
    \/ \E resp \in Responses(FetchResults) :
          TrackFetchReturn(resp) /\ UNCHANGED <<reply, hist>>
    \/ \E name \in Names : Untrack(name) /\ UNCHANGED <<reply, hist>>

SpecStart == Init /\ [][NextStart]_vars

\* SpecNoop: the loop with track from a channel the transport resolves and
\* from one it does not (the ids of DeadChannels), and untrack; hist records
\* the ticks that returned early.
DeadChannels == EnvChannels \ Channels

NextNoop ==
    \/ OnReady /\ UNCHANGED <<reply, hist>>
    \/ Tick /\ SkipTick /\ UNCHANGED reply
    \/ Wake /\ UNCHANGED <<reply, hist>>
    \/ \E resp \in Responses(FetchResults) :
          FetchReturn(resp) /\ UNCHANGED <<reply, hist>>
    \/ SendOk /\ UNCHANGED <<reply, hist>>
    \/ SendFail /\ UNCHANGED <<reply, hist>>
    \/ \E name \in Names, ch \in {1} \cup DeadChannels :
          Track(name, 7, 282, <<>>, ch) /\ UNCHANGED <<reply, hist>>
    \/ TrackSendOk /\ UNCHANGED <<reply, hist>>
    \/ \E resp \in Responses(FetchResults) :
          TrackFetchReturn(resp) /\ UNCHANGED <<reply, hist>>
    \/ \E name \in Names : Untrack(name) /\ UNCHANGED <<reply, hist>>

SpecNoop == Init /\ [][NextNoop]_vars

\* SpecOnce: the loop with track and untrack from one channel; hist records
\* which configuration of a cycle returned an id first and which notified
\* it.
NextOnce ==
    \/ OnReady /\ UNCHANGED <<reply, hist>>
    \/ Tick /\ CycleTick /\ UNCHANGED reply
    \/ Wake /\ UNCHANGED <<reply, hist>>
    \/ \E resp \in Responses(FetchResults) :
          FetchReturn(resp) /\ CycleFetch(resp) /\ UNCHANGED reply
    \/ SendOk /\ CycleSend /\ UNCHANGED reply
    \/ SendFail /\ UNCHANGED <<reply, hist>>
    \/ \E name \in Names :
          Track(name, 7, 282, <<>>, 1) /\ UNCHANGED <<reply, hist>>
    \/ TrackSendOk /\ UNCHANGED <<reply, hist>>
    \/ \E resp \in Responses(FetchResults) :
          TrackFetchReturn(resp) /\ UNCHANGED <<reply, hist>>
    \/ \E name \in Names : Untrack(name) /\ UNCHANGED <<reply, hist>>

SpecOnce == Init /\ [][NextOnce]_vars

\* SpecInitial: the loop with track and untrack from one channel; hist
\* records what the initial fetches of track returned.
NextInitial ==
    \/ OnReady /\ UNCHANGED <<reply, hist>>
    \/ Tick /\ UNCHANGED <<reply, hist>>
    \/ Wake /\ UNCHANGED <<reply, hist>>
    \/ \E resp \in Responses(FetchResults) :
          FetchReturn(resp) /\ UNCHANGED <<reply, hist>>
    \/ SendOk /\ UNCHANGED <<reply, hist>>
    \/ SendFail /\ UNCHANGED <<reply, hist>>
    \/ \E name \in Names :
          Track(name, 7, 282, <<>>, 1) /\ SnapTrack /\ UNCHANGED reply
    \/ TrackSendOk /\ UNCHANGED <<reply, hist>>
    \/ TrackSendFail /\ UNCHANGED <<reply, hist>>
    \/ \E resp \in Responses(FetchResults) :
          TrackFetchReturn(resp) /\ InitialFetch(resp) /\ UNCHANGED reply
    \/ \E name \in Names : Untrack(name) /\ UNCHANGED <<reply, hist>>

SpecInitial == Init /\ [][NextInitial]_vars

\* SpecDest: the loop with track from every channel and untrack; hist
\* records where the notifications of a cycle went.
NextDest ==
    \/ OnReady /\ UNCHANGED <<reply, hist>>
    \/ Tick /\ DestTick /\ UNCHANGED reply
    \/ Wake /\ UNCHANGED <<reply, hist>>
    \/ \E resp \in Responses(FetchResults) :
          FetchReturn(resp) /\ UNCHANGED <<reply, hist>>
    \/ SendOk /\ DestSend /\ UNCHANGED reply
    \/ SendFail /\ UNCHANGED <<reply, hist>>
    \/ \E name \in Names, ch \in Channels :
          Track(name, 7, 282, <<>>, ch) /\ UNCHANGED <<reply, hist>>
    \/ TrackSendOk /\ UNCHANGED <<reply, hist>>
    \/ \E resp \in Responses(FetchResults) :
          TrackFetchReturn(resp) /\ UNCHANGED <<reply, hist>>
    \/ \E name \in Names : Untrack(name) /\ UNCHANGED <<reply, hist>>

SpecDest == Init /\ [][NextDest]_vars

\* SpecDedup: the same coroutines with commands from one channel; hist
\* records the ids each tick's fetches return.
NextDedup ==
    \/ OnReady /\ UNCHANGED <<reply, hist>>
    \/ Tick /\ RetTick /\ UNCHANGED reply
    \/ Wake /\ UNCHANGED <<reply, hist>>
    \/ \E resp \in Responses(FetchResults) :
          FetchReturn(resp) /\ RetFetch(resp) /\ UNCHANGED reply
    \/ SendOk /\ UNCHANGED <<reply, hist>>
    \/ SendFail /\ UNCHANGED <<reply, hist>>
    \/ \E name \in Names, tokens \in TrackTokens :
          Track(name, 7, 282, tokens, 1) /\ UNCHANGED <<reply, hist>>
    \/ TrackSendOk /\ UNCHANGED <<reply, hist>>
    \/ TrackSendFail /\ UNCHANGED <<reply, hist>>
    \/ \E resp \in Responses(FetchResults) :
          TrackFetchReturn(resp) /\ UNCHANGED <<reply, hist>>
    \/ \E name \in Names : Untrack(name) /\ UNCHANGED <<reply, hist>>

SpecDedup == Init /\ [][NextDedup]_vars

\* SpecCap: configurations that stay and fetches that return up to NotifyCap +
\* MaxOver listings: the ids a..b in ascending order, from the first id
\* or from the id NotifyCap on.
CapIds == 1..(NotifyCap + MaxOver)

CapResults ==
    {[i \in 1..(b - a + 1) |-> a + i - 1] :
        a \in {1, NotifyCap}, b \in {0} \cup CapIds}

NextCap ==
    \/ OnReady /\ UNCHANGED <<reply, hist>>
    \/ Tick /\ UNCHANGED <<reply, hist>>
    \/ Wake /\ UNCHANGED <<reply, hist>>
    \/ \E resp \in Responses(CapResults) :
          FetchReturn(resp) /\ UNCHANGED <<reply, hist>>
    \/ SendOk /\ UNCHANGED <<reply, hist>>
    \/ SendFail /\ UNCHANGED <<reply, hist>>
    \/ \E name \in Names :
          Track(name, 7, 282, <<>>, 1) /\ UNCHANGED <<reply, hist>>
    \/ TrackSendOk /\ UNCHANGED <<reply, hist>>
    \/ \E resp \in Responses({<<>>}) :
          TrackFetchReturn(resp) /\ UNCHANGED <<reply, hist>>

SpecCap == Init /\ [][NextCap]_vars

\* SpecCmd: the command handlers, the loop not started; reply records what
\* they send.
CmdTokens == {<<>>, <<Tok("sort_by", BOGUS)>>,
              <<Tok("limit", <<"5">>), Tok("sort_by", BOGUS)>>}

NextCmd ==
    \/ \E name \in Names, tokens \in CmdTokens, ch \in Channels :
          /\ Track(name, 7, 282, tokens, ch)
          /\ Says(TrackReply(7, 282, tokens))
          /\ UNCHANGED hist
    \/ TrackSendOk /\ UNCHANGED <<reply, hist>>
    \/ TrackSendFail
          /\ Says([kind |-> "track_error", ok |-> FALSE, body |-> <<>>])
          /\ UNCHANGED hist
    \/ \E resp \in Responses(FetchResults) :
          /\ TrackFetchReturn(resp)
          /\ Says(TrackInitialReply(resp))
          /\ UNCHANGED hist
    \/ \E name \in Names :
          Untrack(name) /\ Says(UntrackReply(name)) /\ UNCHANGED hist
    \/ ListTracking /\ Says(ListReply) /\ UNCHANGED hist
    \/ \E sort_by \in {BEST_DEAL, BOGUS}, resp \in Responses(FetchResults) :
          TestFetch(sort_by, resp) /\ Says(TestReply(sort_by, resp))
             /\ UNCHANGED hist

SpecCmd == Init /\ [][NextCmd]_vars

\* SpecTest: the loop, track of one name and the test command; hist
\* records what test displayed.
NextTest ==
    \/ OnReady /\ UNCHANGED <<reply, hist>>
    \/ Tick /\ UNCHANGED <<reply, hist>>
    \/ Wake /\ UNCHANGED <<reply, hist>>
    \/ \E resp \in Responses(FetchResults) :
          FetchReturn(resp) /\ UNCHANGED <<reply, hist>>
    \/ SendOk /\ UNCHANGED <<reply, hist>>
    \/ SendFail /\ UNCHANGED <<reply, hist>>
    \/ Track("A", 7, 282, <<>>, 1) /\ UNCHANGED <<reply, hist>>
    \/ TrackSendOk /\ UNCHANGED <<reply, hist>>
    \/ \E resp \in Responses(FetchResults) :
          TrackFetchReturn(resp) /\ UNCHANGED <<reply, hist>>
    \/ \E sort_by \in {BEST_DEAL, BOGUS}, resp \in Responses(FetchResults) :
          TestFetch(sort_by, resp) /\ ShownTest(sort_by, resp)
             /\ UNCHANGED reply

SpecTest == Init /\ [][NextTest]_vars

\* SpecParams: track, untrack and list_tracking from one channel, with extra
\* params of every shape the parser distinguishes; the initial fetches find
\* nothing.  hist records the last accepted track of each name.
NoEq(key) == [eq |-> FALSE, key |-> key, value |-> <<>>]

DefIndexes == {7, 12}

ParamTokens ==
    {<<>>,
     <<Tok("max_float", <<"0", ".", "1", "5">>)>>,
     <<Tok("max_float", <<"0", ".", "1", "5", "0">>)>>,
     <<Tok("limit", <<"0", "0", "7">>)>>,
     <<Tok("min_price", <<"1", ".", "2", ".", "3">>)>>,
     <<Tok("min_price", <<"1", "2", "x">>)>>,
     <<Tok("def_index", <<"9">>)>>,
     <<Tok("limit", <<"5", "0">>), Tok("limit", <<"5">>)>>,
     <<NoEq("max_float"), Tok("sort_by", LOWEST_PRICE)>>,
     <<Tok("min_price", <<"1", "2", "x">>), Tok("sort_by", BOGUS)>>}

NextParams ==
    \/ \E name \in Names, def_index \in DefIndexes, tokens \in ParamTokens :
          /\ Track(name, def_index, 282, tokens, 1)
          /\ Says(TrackReply(def_index, 282, tokens))
          /\ LastTrack(name, def_index, 282, tokens)
    \/ TrackSendOk /\ UNCHANGED <<reply, hist>>
    \/ \E resp \in Responses({<<>>}) :
          TrackFetchReturn(resp) /\ UNCHANGED <<reply, hist>>
    \/ \E name \in Names :
          Untrack(name) /\ Says(UntrackReply(name)) /\ LastUntrack(name)
    \/ ListTracking /\ Says(ListReply) /\ UNCHANGED hist

SpecParams == Init /\ [][NextParams]_vars

\* SpecEmbed: the notification builder applied to listings with every shape
\* of seller and reference; hist.listing is the listing given, reply the
\* embed sent.
BOB == <<"b", "o", "b">>

EmbedSellers ==
    {[username |-> u, obfuscated_id |-> o] :
        u \in {Absent, Present(<<>>), Present(BOB)},
        o \in {Absent, Present(<<"1", "2", "3", "4", "5">>),
                Present(<<"1", "2", "3", "4", "5", "6", "7", "8", "9", "0">>)}}

EmbedReferences ==
    {NoReference} \cup
    {[has |-> TRUE, predicted_price |-> p, base_price |-> b] :
        p \in {0, 10000}, b \in {0, 9500}}

EmbedListings ==
    {[price |-> c, seller |-> s, reference |-> r] :
        c \in {9000, 10000, 10001, 11000}, s \in EmbedSellers,
        r \in EmbedReferences}

ObserveListing(listing) == hist' = [hist EXCEPT !.listing = listing]

NextEmbed ==
    \E listing \in EmbedListings :
        /\ TestEmbed(listing)
        /\ Says(EmbedReply(listing))
        /\ ObserveListing(listing)

SpecEmbed == Init /\ [][NextEmbed]_vars

\* ---------------------------------------------------------------- claims ----
\* C1 as claimed: once a tick has ended, every id that its fetches and the
\* fetches of the tick before both returned has had exactly one notification.
C1_ExactlyOne ==
    pc = "idle" => \A x \in hist.prev_ret \cap hist.cur_ret : Notified(x) = 1

\* C1 as amended: an id that the fetches of two consecutive ticks return is
\* notified at most once over the whole run, and never by the second of the
\* two ticks: it is in the seen set when the second tick starts and is never
\* among the listings the second tick sends.
C1_AtMostOne ==
    /\ \A x \in hist.prev_ret \cap hist.cur_ret : Notified(x) <= 1
    /\ \A x \in hist.prev_ret :
          /\ x \in seen_listings
          /\ pc = "send" => x \notin Range(Capped(new_listings))

\* An id returned in two consecutive ticks, notified once.
C1_Witness ==
    \E x \in hist.prev_ret \cap hist.cur_ret : Notified(x) = 1 /\ pc = "idle"


\* C2 as claimed: when the processing of a configuration that found n new
\* listings ends, exactly min(n, 5) notifications have been dispatched for it.
C2_ExactlyMin ==
    [][(pc = "send" /\ pc' # "send")
         => Len(batch) + (IF notified' # notified THEN 1 ELSE 0)
               = Min(Len(new_listings), NotifyCap)]_vars

\* C2 as amended: of the n new listings of a fetch, all marked seen, the
\* notifications dispatched are the first listings in fetch order, each once;
\* the processing ends after min(n, 5) of them, or earlier at the first
\* dispatch that fails.
C2_CapPrefix ==
    /\ [](pc = "send" =>
            /\ Len(batch) < Min(Len(new_listings), NotifyCap)
            /\ batch = SubSeq(new_listings, 1, Len(batch))
            /\ Range(new_listings) \subseteq seen_listings
            /\ \A i \in DOMAIN new_listings :
                  Notified(new_listings[i]) = IF i <= Len(batch) THEN 1 ELSE 0)
    /\ [][(pc = "send" /\ pc' # "send" /\ notified' # notified)
            => /\ Len(batch) + 1 = Min(Len(new_listings), NotifyCap)
               /\ Range(new_listings) \subseteq seen_listings']_vars

\* The processing of a configuration has ended with NotifyCap + MaxOver new
\* listings, all seen, and NotifyCap notifications; the next one starts.
C2_Witness ==
    /\ pc = "sleep"
    /\ Len(new_listings) = NotifyCap + MaxOver
    /\ Len(batch) = NotifyCap
    /\ Range(new_listings) \subseteq seen_listings
    /\ \A x \in Range(new_listings) :
          Notified(x) = IF x \in Range(batch) THEN 1 ELSE 0

\* C4: a track command with a sort_by token whose value is no sort option is
\* answered with a rejection and stores nothing: the store (and so what
\* list_tracking shows), the default destination and the seen set stay as
\* they were, and no initial fetch is started.
BadSort(tokens) ==
    \E i \in DOMAIN tokens :
        tokens[i].eq /\ tokens[i].key = "sort_by" /\ tokens[i].value \notin SortOption

C4_BadSortRejected ==
    [][\A name \in Names, tokens \in CmdTokens, ch \in Channels :
          (/\ BadSort(tokens)
           /\ Track(name, 7, 282, tokens, ch)
           /\ Says(TrackReply(7, 282, tokens)))
          => /\ reply'.kind = "track" /\ ~reply'.ok
             /\ UNCHANGED <<tracking_configs, channel_id, seen_listings>>
             /\ ListFields(tracking_configs') = ListFields(tracking_configs)
             /\ track_send' = track_send]_vars

\* A rejection with configurations stored, ids seen and the default set.
C4_Witness ==
    /\ reply.kind = "track" /\ ~reply.ok /\ reply.body = BOGUS
    /\ Len(tracking_configs) = 1
    /\ seen_listings # {}
    /\ channel_id \in Channels

\* C9: untrack of a name in the store removes exactly its entry and reports
\* that one existed; untrack of another name reports that none existed and
\* leaves the store alone.  The other entries, their order, the default
\* destination and the seen set stay as they were.
C9_UntrackFrame ==
    [][\A name \in Names :
          (Untrack(name) /\ Says(UntrackReply(name)))
          => /\ reply'.kind = "untrack"
             /\ reply'.ok = (name \in Keys(tracking_configs))
             /\ Keys(tracking_configs') = Keys(tracking_configs) \ {name}
             /\ Len(tracking_configs') = Cardinality(Keys(tracking_configs'))
             /\ \A i, j \in DOMAIN tracking_configs :
                   (i < j /\ tracking_configs[i].name # name
                          /\ tracking_configs[j].name # name)
                   => \E k, l \in DOMAIN tracking_configs' :
                         /\ k < l
                         /\ tracking_configs'[k] = tracking_configs[i]
                         /\ tracking_configs'[l] = tracking_configs[j]
             /\ \A i \in DOMAIN tracking_configs :
                   tracking_configs[i].name # name
                   => tracking_configs[i] \in Range(tracking_configs')
             /\ UNCHANGED <<channel_id, seen_listings>>]_vars

\* untrack has removed one of two configurations; ids are seen.
C9_Witness ==
    /\ reply.kind = "untrack" /\ reply.ok
    /\ Len(tracking_configs) = 1
    /\ reply.body \notin Keys(tracking_configs)
    /\ seen_listings # {}

\* The texts of ParamTokens that are no numbers.
MalformedValues == {<<"1", ".", "2", ".", "3">>, <<"1", "2", "x">>}

HasMalformed(tokens) ==
    \E i \in DOMAIN tokens : tokens[i].eq /\ tokens[i].value \in MalformedValues

\* C5 as claimed: a track command with a key=value token whose value is a
\* malformed number is rejected and the store stays as it was.
C5_MalformedRejected ==
    [][\A name \in Names, def_index \in DefIndexes, tokens \in ParamTokens :
          (/\ HasMalformed(tokens)
           /\ Track(name, def_index, 282, tokens, 1)
           /\ Says(TrackReply(def_index, 282, tokens)))
          => ~reply'.ok /\ UNCHANGED tracking_configs]_vars

\* C5: a track command with a key=value token whose value is a malformed
\* number is accepted unless its sort option is unknown: the configuration
\* is stored under the name and list_tracking shows the key with the text as
\* it was given.
C5_MalformedKept ==
    [][\A name \in Names, def_index \in DefIndexes, tokens \in ParamTokens :
          (/\ HasMalformed(tokens)
           /\ Track(name, def_index, 282, tokens, 1)
           /\ Says(TrackReply(def_index, 282, tokens)))
          => IF BadSort(tokens)
             THEN ~reply'.ok /\ UNCHANGED tracking_configs
             ELSE /\ reply'.kind = "track" /\ reply'.ok
                  /\ \E f \in Range(ListFields(tracking_configs')) :
                        /\ f.name = name
                        /\ \A i \in DOMAIN tokens :
                              (tokens[i].eq /\ tokens[i].value \in MalformedValues)
                              => <<tokens[i].key, tokens[i].value>>
                                    \in Range(f.lines)]_vars

\* A confirmed track whose stored configuration holds a malformed number as
\* text.
C5_Witness ==
    /\ reply.kind = "track" /\ reply.ok
    /\ \E v \in MalformedValues : <<"min_price", MkStr(v)>> \in Range(reply.body)
    /\ \E e \in Range(tracking_configs) : e.params = reply.body

\* What Python prints for the values of ParamTokens after the conversion of
\* lines 276-282; the values not listed print as given.
ShownAs(value) ==
    CASE value = <<"0", ".", "1", "5", "0">> -> <<"0", ".", "1", "5">>
      [] value = <<"0", "0", "7">> -> <<"7">>
      [] OTHER -> value

DefIndexText(n) == IF n = 7 THEN <<"7">> ELSE <<"1", "2">>

Extra(l, key) == {i \in DOMAIN l.tokens : l.tokens[i].eq /\ l.tokens[i].key = key}

LastExtra(l, key) == l.tokens[CHOOSE i \in Extra(l, key) : \A j \in Extra(l, key) : j <= i].value

Given(l, key) ==
    CASE key = "def_index" -> DefIndexText(l.def_index)
      [] key = "paint_index" -> <<"2", "8", "2">>
      [] key = "limit" -> <<"2", "0">>
      [] key = "sort_by" -> BEST_DEAL

BaseKeys == {"def_index", "paint_index", "limit", "sort_by"}

\* The lines of the claim: the indexes as given, the defaults unless an
\* extra param overrides them, and every key=value extra param as given.
LinesClaimed(l) ==
    {<<key, Given(l, key)>> : key \in {"def_index", "paint_index"}}
        \cup {<<key, Given(l, key)>> :
                 key \in {k \in {"limit", "sort_by"} : Extra(l, k) = {}}}
        \cup {<<l.tokens[i].key, l.tokens[i].value>> :
                 i \in {j \in DOMAIN l.tokens : l.tokens[j].eq}}

\* The lines of the code: one per key, the four base keys included; an
\* extra param replaces what its key had, the last one of a key counting,
\* and numbers are printed in Python's form.
LinesShown(l) ==
    {<<key, IF Extra(l, key) = {} THEN Given(l, key)
            ELSE ShownAs(LastExtra(l, key))>> :
        key \in BaseKeys \cup {l.tokens[i].key :
                                 i \in {j \in DOMAIN l.tokens : l.tokens[j].eq}}}

Tracked == {n \in Names : hist.last[n].set}

ListShows(Lines(_)) ==
    /\ ListReply.ok = (Tracked # {})
    /\ ListReply.ok =>
          /\ Len(ListReply.body) = Cardinality(Tracked)
          /\ {ListReply.body[i].name : i \in DOMAIN ListReply.body} = Tracked
          /\ \A i \in DOMAIN ListReply.body :
                /\ Range(ListReply.body[i].lines)
                      = Lines(hist.last[ListReply.body[i].name])
                /\ Len(ListReply.body[i].lines)
                      = Cardinality(Range(ListReply.body[i].lines))

\* C8 as claimed: list_tracking shows, for each name tracked, the indexes of
\* its last track as given, limit=20 and sort_by=best_deal unless overridden,
\* and each key=value extra param.
C8_ListShowsGiven == ListShows(LinesClaimed)

\* C8: list_tracking shows one field per name tracked and in it one line per
\* key of the name's last accepted track: the base keys def_index,
\* paint_index, limit and sort_by and the keys of its key=value extra params.
\* A key's value is that of the last extra param with the key (for def_index
\* and paint_index too), else the index given or the default; numbers are
\* shown as Python prints them after conversion (0.150 as 0.15, 007 as 7).
C8_ListShowsLast == ListShows(LinesShown)

\* list_tracking has shown two names, one after a second track that gave a
\* float with a trailing zero, the other with def_index overridden.
C8_Witness ==
    /\ reply.kind = "list" /\ reply.ok /\ reply = ListReply
    /\ \E n, m \in Names :
          /\ hist.last[n].again
          /\ hist.last[n].tokens = <<Tok("max_float", <<"0", ".", "1", "5", "0">>)>>
          /\ hist.last[m].set
          /\ hist.last[m].tokens = <<Tok("def_index", <<"9">>)>>

\* C10: the test command, whatever its sort option and whatever its fetch
\* returns, leaves the seen set, the store, the default destination and the
\* state of the polling loop as they were.
C10_TestFrame ==
    [][\A sort_by \in {BEST_DEAL, BOGUS}, resp \in Responses(FetchResults) :
          (TestFetch(sort_by, resp) /\ ShownTest(sort_by, resp))
          => UNCHANGED <<seen_listings, tracking_configs, channel_id, pc, it,
                         new_listings, batch, notified>>]_vars

\* A listing that test displayed while it was not in the seen set has been
\* notified by the loop.
C10_Witness ==
    \E x \in hist.shown : Notified(x) = 1 /\ x \in seen_listings

\* C7: the seen-listing set only grows: every step of every coroutine leaves
\* it a superset of what it was, so an id once added is never removed.
C7_SeenMonotonic == [][seen_listings \subseteq seen_listings']_vars

\* A state after untrack has emptied the store: the ids seen are still seen.
C7_Witness ==
    /\ seen_listings # {}
    /\ tracking_configs = <<>>
    /\ \E x \in seen_listings : Notified(x) = 1

\* C3 as claimed: a track command that stores its configuration while the
\* store is not empty leaves the default destination as it was.
C3_LaterAddKeepsDefault ==
    [][(track_send' = track_send + 1 /\ tracking_configs # <<>>)
          => channel_id' = channel_id]_vars

\* C6: when the processing of a configuration records a fetch failure or a
\* send failure and the loop's iterator is intact, the loop goes on with the
\* configuration that follows it in the store (its jitter sleep starts), and
\* the tick ends normally when none follows.
C6_FailureIsolated ==
    [][(hist.failed # hist'.failed /\ hist.failed \subseteq hist'.failed
          /\ ~it.dirty /\ it.used = Used(tracking_configs))
         => IF it.pos < Len(tracking_configs)
            THEN /\ pc' = "sleep"
                 /\ config_name' = tracking_configs[it.pos + 1].name
            ELSE pc' = "idle"]_vars

\* A later configuration has had a notification sent in a cycle in which an
\* earlier one failed.
C6_Witness ==
    /\ pc = "send"
    /\ batch # <<>>
    /\ hist.failed # {}
    /\ config_name \notin hist.failed

Field(embed, name) == embed[CHOOSE i \in DOMAIN embed : embed[i].name = name]

HasField(embed, name) == \E i \in DOMAIN embed : embed[i].name = name

\* C11 as claimed: the seller shown is the username when it is present and
\* not empty; else "User " + the first 8 characters of the obfuscated id +
\* "..." when the id is present; else "Anonymous".
C11_SellerChain ==
    reply.kind = "embed" =>
        LET seller == hist.listing.seller
        IN Field(reply.body, "Seller").value =
              IF seller.username.has /\ seller.username.v # <<>>
              THEN seller.username.v
              ELSE IF seller.obfuscated_id.has
              THEN <<"U", "s", "e", "r", " ">>
                      \o SubSeq(seller.obfuscated_id.v, 1,
                                Min(8, Len(seller.obfuscated_id.v)))
                      \o <<".", ".", ".">>
              ELSE ANONYMOUS

\* What C12 says of the embed of listing l, the discount field being emitted
\* exactly when discount holds: the divergence field is there exactly when
\* the reference is present with a predicted price above 0; it carries the
\* upward marker and '+' for a price above the predicted one, the downward
\* marker and '-' for a price below it, the neutral marker and 0.0% for an
\* equal price; 90.00 and 110.00 against 100.00 give 10.0%.
DivergenceShown(embed, l, discount) ==
    LET price == l.price
        predicted == l.reference.predicted_price
    IN /\ HasField(embed, "Divergence") = (l.reference.has /\ predicted > 0)
       /\ HasField(embed, "Divergence") =>
             LET d == Field(embed, "Divergence").value
             IN /\ price > predicted => d.marker = "up" /\ d.sign = "+"
                /\ price < predicted => d.marker = "down" /\ d.sign = "-"
                /\ price = predicted =>
                      d.marker = "even" /\ d.sign = "" /\ d.tenths = 0
                /\ (predicted = 10000 /\ price \in {9000, 11000}) =>
                      d.tenths = 100
       /\ HasField(embed, "Discount") = discount
       /\ (HasField(embed, "Discount") /\ predicted = 10000 /\ price = 9000)
             => Field(embed, "Discount").value = 100

C13_NeverFails == pc # "failed"

\* C14 as claimed: once the loop is started it is never terminated: from
\* every state on, the loop comes to wait for its next tick again.
C14_KeepsTicking == (pc # "unstarted") ~> (pc = "idle")

\* C15: an id found new is in the seen set from the step that detects it,
\* before any of its batch is sent; an id whose dispatch failed stays in the
\* seen set, is not among the listings still to send, and has no
\* notification, in that cycle and in every later one.
C15_MarkAtDetection ==
    /\ [](/\ pc = "send" => Range(new_listings) \subseteq seen_listings
          /\ \A x \in hist.lost :
                /\ x \in seen_listings
                /\ Notified(x) = 0
                /\ pc = "send" =>
                      \A i \in (Len(batch) + 1)..Len(Capped(new_listings)) :
                          Capped(new_listings)[i] # x)
    /\ [][(pc = "fetch" /\ pc' = "send")
            => /\ notified' = notified
               /\ Range(new_listings') \cap seen_listings = {}
               /\ Range(new_listings') \subseteq seen_listings']_vars

\* An id whose dispatch failed was returned again by a later fetch of the
\* loop; the cycle is over and the id has no notification.
C15_Witness ==
    /\ pc = "idle"
    /\ \E x \in hist.lost_ret : x \in seen_listings /\ Notified(x) = 0

\* C16: one cycle at a time.  The iteration over the configurations is in
\* progress exactly while the loop is suspended in a sleep, a fetch or a
\* send; an iteration begins only when the loop was waiting for its tick,
\* never while one is in progress; and within a cycle the next configuration
\* is taken, one step further in the iteration, only when the fetch or a
\* send of the configuration before it has returned.
C16_OneCycle ==
    /\ [](InCycle <=> it.pos >= 1)
    /\ [][/\ (it'.pos = 1 /\ it.pos # 1) => (pc = "idle" /\ pc' = "sleep")
          /\ (InCycle /\ InCycle' /\ it'.pos # it.pos)
                => /\ pc \in {"fetch", "send"}
                   /\ pc' = "sleep"
                   /\ it'.pos = it.pos + 1
                   /\ \/ batch' = batch
                      \/ batch' = Append(batch,
                                         Capped(new_listings)[Len(batch) + 1])]_vars

\* The second configuration of a cycle is started after the sends of the
\* first.
C16_Witness ==
    /\ pc = "sleep"
    /\ it.pos = 2
    /\ batch # <<>>

\* C17 as claimed: before the transport has reported ready the loop has not
\* started: it is in no cycle and has notified nothing; and the loop is
\* started at most once, however often the transport reports ready.
C17_StartedOnce ==
    /\ hist.starts = 0 => (pc = "unstarted" /\ DOMAIN notified = {})
    /\ hist.starts <= 1

\* C18: a tick that finds the store empty, or a default destination the
\* transport does not resolve, returns at once: the loop waits for its next
\* tick (it has not failed), no fetch is started, nothing is notified, the
\* seen set, the store and the default destination are as before.  A tick
\* that finds a configuration and a destination that resolves starts the
\* cycle with the first configuration of the store.
C18_NoopTick ==
    [][(pc = "idle" /\ Tick /\ SkipTick)
         => IF tracking_configs = <<>> \/ channel_id \notin Channels
            THEN /\ pc' = "idle"
                 /\ UNCHANGED <<seen_listings, tracking_configs, channel_id,
                                notified, new_listings, batch>>
            ELSE /\ pc' = "sleep"
                 /\ config_name' = tracking_configs[1].name
                 /\ channel' = channel_id
                 /\ UNCHANGED <<seen_listings, notified>>]_vars

\* After a tick that found the store empty and one that found no channel, a
\* tick has started a cycle.
C18_Witness ==
    /\ hist.skipped = {"empty", "channel"}
    /\ pc = "sleep"

\* C19: no id ever has more than one notification, whatever the ticks and
\* the commands do; an id is notified only after it was marked seen; and in
\* a cycle the configuration that notifies an id is the first one, in the
\* order of the iteration, whose fetch returned it.
C19_AtMostOnce ==
    \A x \in Ids :
        /\ Notified(x) <= 1
        /\ Notified(x) = 1 => x \in seen_listings
        /\ hist.by[x] # 0 => (hist.by[x] = hist.first[x] /\ Notified(x) = 1)

\* The first configuration of a cycle has notified an id that the fetch of
\* the second returned as well.
C19_Witness ==
    \E x \in hist.again :
        /\ hist.by[x] = 1
        /\ Notified(x) = 1
        /\ it.pos = 2

\* C20 as claimed: an id that the initial fetch of a track command returned
\* has no notification from the loop, unless it had one before the command
\* stored its configuration.
C20_InitialSuppressed == \A x \in hist.initial : Notified(x) = 0

\* C21: every notification of a cycle goes to the channel that the default
\* destination resolved to when the cycle began, whatever channel the
\* configuration was stored with and whatever channel_id has become since;
\* during the cycle the loop's destination is that channel.
C21_OneDestination ==
    /\ \A d \in hist.dest : d[1] = hist.resolved /\ d[1] \in Channels
    /\ InCycle => channel = hist.resolved

\* A notification for a configuration stored with another channel went to
\* the channel resolved at the start of the cycle, after channel_id had
\* changed.
C21_Witness ==
    /\ pc = "send"
    /\ batch # <<>>
    /\ \E d \in hist.dest : d[1] = hist.resolved /\ d[2] # d[1]
    /\ \E e \in Range(tracking_configs) :
          e.name = config_name /\ e.channel # hist.resolved
====
